---- MODULE Spec2Model ----
(***************************************************************************)
(* python-minutedock: a client for the MinuteDock REST API.                *)
(*                                                                         *)
(* Two layers are modelled, each translated from its source file:          *)
(*   - the record layer (minutedock/models.py): BaseModel and the entity   *)
(*     classes, with _create_from_dict, to_dict, __eq__, __hash__ and      *)
(*     __getattr__;                                                        *)
(*   - the call layer (minutedock/api.py): MinuteDockCall (_make_request,  *)
(*     _get, _post, _put, __api_url, __remove_none_values) and the         *)
(*     MinuteDock facade, one action per facade method.                    *)
(*                                                                         *)
(* Python values are written as tokens (strings):                          *)
(*   "None" "False" "True" "0" "7" "42"  the literals None, False, ...     *)
(*   "''"                                  the empty string                *)
(*   "Ab" "all"                            non-empty strings               *)
(*   "[]" "[7]"                            an empty and a non-empty list   *)
(***************************************************************************)
EXTENDS Naturals, Sequences, FiniteSets, TLC

VARIABLES
    \* ---- record layer (models.py) ----
    mpc,        \* position of the record-layer scenario
    cls,        \* the entity class the factory is called on
    data,       \* the decoded JSON handed to _create_from_dict
    obj,        \* what _create_from_dict returned
    other,      \* a second entity, decoded from a mapping one key apart
    eq_result,  \* obj == other, as __eq__ computes it
    dumped,     \* obj.to_dict()
    reloaded,   \* cls._create_from_dict(obj.to_dict())
    hash_self,  \* how hash(obj) ended
    hash_other, \* how hash(other) ended
    attr_name,  \* the attribute name read on obj
    attr_value, \* how reading it ended
    \* ---- call layer (api.py) ----
    pc,         \* "idle" | "sent" | "returned" | "raised" | "exited"
    api_key,    \* MinuteDockCall.api_key
    account_id, \* MinuteDockCall.account_id
    headers,    \* MinuteDockCall.headers (one dict object for the client's life)
    call,       \* the call in progress: method name, arguments, kwargs, and
                \* self.headers as the call found it
    request,    \* the HTTP request handed to requests.request by this call
    nrequests,  \* HTTP requests issued by this call
    response,   \* what the transport answered to the request
    result,     \* how the call ended
    facade_only \* TRUE while every call so far was a MinuteDock facade call

hvars == <<hash_self, hash_other, attr_name, attr_value>>
mvars == <<mpc, cls, data, obj, other, eq_result, dumped, reloaded, hvars>>
cvars == <<pc, api_key, account_id, headers, call, request, nrequests,
           response, result, facade_only>>
vars == <<mvars, cvars>>

(***************************************************************************)
(* Bounds                                                                  *)
(***************************************************************************)
\* keys a decoded JSON mapping may carry
MaxKeys == 1
\* length of a decoded JSON array
MaxLen == 2
\* arguments a caller passes explicitly to a facade method (the rest
\* take the defaults of the method's signature)
MaxArgs == 1

(***************************************************************************)
(* Python values                                                           *)
(***************************************************************************)
None == "None"

\* the values a decoded JSON field may hold: null, false, numbers, strings,
\* arrays (a JSON object as a value behaves as a string does: kept by
\* to_dict when it is non-empty)
Values == {"None", "False", "0", "''", "7", "[]", "[7]"}

\* bool(v)
Truthy(v) == v \notin {"None", "False", "0", "''", "[]"}

\* isinstance(v, (list, tuple, set))
IsSequence(v) == v \in {"[]", "[7]"}

\* a == b on values: False == 0 in Python
PyEq(a, b) == a = b \/ {a, b} = {"False", "0"}

\* a == b on dicts: same keys, equal values
DictEq(a, b) ==
    /\ DOMAIN a = DOMAIN b
    /\ \A k \in DOMAIN a : PyEq(a[k], b[k])

\* the empty dict
EmptyDict == [k \in {} |-> None]

\* decoded JSON, as md_response.json() returns it
JsonNull == [kind |-> "null"]
JsonMap(m) == [kind |-> "map", map |-> m]
JsonList(l) == [kind |-> "list", list |-> l]

(***************************************************************************)
(* models.py: the entity classes                                           *)
(***************************************************************************)
Classes == {"Report", "User", "Account", "Contact", "Project", "Task",
            "TimeEntry", "Dock"}

\* the keys of each class's attribute_defaults
FieldNames(c) ==
    CASE c = "Report" ->
           {"description", "total_entries", "hours", "billable_hours",
            "billable_value"}
      [] c = "User" -> {"id", "email", "first_name", "last_name"}
      [] c = "Account" -> {"id", "name"}
      [] c = "Contact" ->
           {"id", "budget_type", "budget_frequency", "budget_target",
            "budget_progress", "default_rate_dollars", "pinned", "name",
            "short_code", "active"}
      [] c = "Project" ->
           {"id", "budget_type", "budget_frequency", "budget_target",
            "budget_progress", "default_rate_dollars", "pinned", "name",
            "contact_id", "short_code", "active", "hidden", "description"}
      [] c = "Task" ->
           {"id", "budget_type", "budget_frequency", "budget_target",
            "budget_progress", "default_rate_dollars", "pinned",
            "short_code", "active", "hidden", "description", "has_detail"}
      [] c = "TimeEntry" ->
           {"id", "account_id", "description", "duration", "contact_id",
            "project_id", "task_ids", "invoice_id", "logged_at"}
      [] c = "Dock" ->
           {"id", "account_id", "description", "duration", "contact_id",
            "project_id", "task_ids", "timer_active"}

\* self.attribute_defaults: every declared default is None
attribute_defaults(c) == [a \in FieldNames(c) |-> None]

\* kwargs.get(attribute, default), with a falsy value taken for a missing one
dict_get_or(kwargs, attribute, default) ==
    IF attribute \in DOMAIN kwargs /\ Truthy(kwargs[attribute])
    THEN kwargs[attribute] ELSE default

\* kwargs.get(attribute, default)
dict_get(kwargs, attribute, default) ==
    IF attribute \in DOMAIN kwargs THEN kwargs[attribute] ELSE default

\* cls(**kwargs): setattr(self, attribute, kwargs.get(attribute, default))
\* for every declared attribute; keys that are not declared are ignored
__init__(c, kwargs) ==
    [a \in FieldNames(c) |-> dict_get(kwargs, a, attribute_defaults(c)[a])]

\* an entity: its class, its attributes, and the _json the factory attaches
Entity(c, kwargs, json) ==
    [cls |-> c, attrs |-> __init__(c, kwargs), _json |-> json]

\* BaseModel.to_dict.  A decoded JSON value is None, a bool, a number, a
\* string or a list of such: no value has a to_dict of its own, so a list is
\* copied element by element (first branch), and any other value is kept
\* when it is truthy (last branch).
to_dict(self) ==
    [key \in {k \in DOMAIN self.attrs :
                 IsSequence(self.attrs[k]) \/ Truthy(self.attrs[k])}
        |-> self.attrs[key]]

\* BaseModel.__eq__: _value.to_dict() == self.to_dict()
__eq__(self, _value) == DictEq(to_dict(_value), to_dict(self))

\* BaseModel.__ne__
__ne__(self, _value) == ~__eq__(self, _value)

\* how an evaluation ends: with a value, or with an exception
Returned(v) == [kind |-> "returned", value |-> v]
Raised(e) == [kind |-> "raised", value |-> e]
NoOutcome == [kind |-> "none", value |-> ""]

\* hash(v) in CPython: None has a hash of its own, False, 0 and '' hash to
\* 0, a number hashes to itself, a list is unhashable
PyHash(v) ==
    IF IsSequence(v) THEN Raised("TypeError")
    ELSE Returned(CASE v = "None" -> "hash(None)"
                    [] v \in {"False", "0", "''"} -> "0"
                    [] OTHER -> v)

\* __getattr__ letting the AttributeError through
__getattr___reraise(self, _name) == Raised("AttributeError")

\* BaseModel.__getattr__, which Python calls when the normal lookup has not
\* found _name: object has no __getattr__, so the try body raises
\* AttributeError and the handler raises ClientException in its place
__getattr__(self, _name) == Raised("ClientException")

\* getattr(self, name): the attributes __init__ has set are found by the
\* normal lookup, any other name goes to __getattr__
getattr(self, name) ==
    IF name \in DOMAIN self.attrs
    THEN Returned(self.attrs[name])
    ELSE __getattr__(self, name)

\* hasattr(self, name): True when getattr returns, False when it raises
\* AttributeError; any other exception propagates
hasattr(self, name) ==
    LET r == getattr(self, name) IN
    IF r.kind = "returned" THEN Returned("True")
    ELSE IF r.value = "AttributeError" THEN Returned("False")
    ELSE r

\* __hash__ over the first attribute that is not the id
__hash___other(self) ==
    PyHash(self.attrs[CHOOSE a \in DOMAIN self.attrs : a # "id"])

\* BaseModel.__hash__: hash(self.id) when hasattr(self, "id"); otherwise
\* hash(self.description, self.total_entries, self.total_hours), whose
\* arguments are read first and which then fails, hash taking one argument
__hash__(self) ==
    LET h == hasattr(self, "id")
        args == <<getattr(self, "description"),
                  getattr(self, "total_entries"),
                  getattr(self, "total_hours")>>
    IN  IF h.kind = "raised" THEN h
        ELSE IF h.value = "True" THEN PyHash(self.attrs["id"])
        ELSE IF \E i \in 1..3 : args[i].kind = "raised"
        THEN args[CHOOSE i \in 1..3 :
                     /\ args[i].kind = "raised"
                     /\ \A j \in 1..(i - 1) : args[j].kind = "returned"]
        ELSE Raised("TypeError")

\* _create_from_dict testing "not _data" where the source tests "is None"
_create_from_dict_falsy(c, _data) ==
    IF \/ _data.kind = "null"
       \/ (_data.kind = "map" /\ DOMAIN _data.map = {})
       \/ (_data.kind = "list" /\ Len(_data.list) = 0)
    THEN [kind |-> "null"]
    ELSE IF _data.kind = "list"
    THEN [kind |-> "list",
          list |-> [i \in 1..Len(_data.list) |->
                      Entity(c, _data.list[i], _data)]]
    ELSE [kind |-> "obj", obj |-> Entity(c, _data.map, _data)]

\* _create_from_dict building the list back to front
_create_from_dict_rev(c, _data) ==
    IF _data.kind = "null" THEN [kind |-> "null"]
    ELSE IF _data.kind = "list"
    THEN [kind |-> "list",
          list |-> [i \in 1..Len(_data.list) |->
                      Entity(c, _data.list[Len(_data.list) + 1 - i], _data)]]
    ELSE [kind |-> "obj", obj |-> Entity(c, _data.map, _data)]

\* BaseModel._create_from_dict(cls, _data), called without extra kwargs (as
\* _handle_response calls it): None for None, one entity per element of a
\* list in the list's order, one entity for a mapping
_create_from_dict(c, _data) ==
    IF _data.kind = "null" THEN [kind |-> "null"]
    ELSE IF _data.kind = "list"
    THEN [kind |-> "list",
          list |-> [i \in 1..Len(_data.list) |->
                      Entity(c, _data.list[i], _data)]]
    ELSE [kind |-> "obj", obj |-> Entity(c, _data.map, _data)]

(***************************************************************************)
(* api.py: MinuteDockCall                                                  *)
(***************************************************************************)
\* constants.BASE_URL: the fixed base authority every URL starts with
BASE_URL == "BASE_URL"

\* constants.API_PATH
API_PATH ==
    [users           |-> "/api/v1/users",
     current_user    |-> "/api/v1/users/me",
     accounts        |-> "/api/v1/accounts",
     current_account |-> "/api/v1/accounts/current",
     contacts        |-> "/api/v1/contacts",
     projects        |-> "/api/v1/projects",
     tasks           |-> "/api/v1/tasks",
     current_entry   |-> "/api/v1/entries/current",
     entries         |-> "/api/v1/entries",
     dock            |-> "/api/v1/dock",
     reports         |-> "/api/v1/reports/generate"]

\* str.lower() on the tokens of the model (every other token is lower case)
Lower(s) ==
    CASE s = "Ab" -> "ab"
      [] s = "None" -> "none"
      [] s = "False" -> "false"
      [] s = "True" -> "true"
      [] s = "BASE_URL" -> "base_url"
      [] s = "/API/V1/Contacts" -> "/api/v1/contacts"
      [] OTHER -> s

\* json.dumps of one value
json_value(v) ==
    CASE v = "None" -> "null"
      [] v = "False" -> "false"
      [] v = "True" -> "true"
      [] v = "Ab" -> "\"Ab\""
      [] v = "all" -> "\"all\""
      [] v = "''" -> "\"\""
      [] OTHER -> v

\* json.dumps of a dict: the JSON object, key by key
json_dumps(d) == [k \in DOMAIN d |-> json_value(d[k])]

\* an optional dict: kwargs.get(key, None) for a key that holds a dict
NoDict == [given |-> FALSE, dict |-> EmptyDict]
SomeDict(d) == [given |-> TRUE, dict |-> d]
kwargs_dict(kwargs, key) ==
    IF key \in DOMAIN kwargs THEN SomeDict(kwargs[key]) ELSE NoDict

\* self.headers without the account entry
headers_init_noaccount(key, account) == [h \in {"X-API-Key"} |-> key]

\* MinuteDockCall.__init__: self.headers
headers_init(key, account) ==
    IF account = None
    THEN [h \in {"X-API-Key"} |-> key]
    ELSE [h \in {"X-API-Key", "X-Account-ID"} |->
             IF h = "X-API-Key" THEN key ELSE account]

\* the JSON text of the dict without the keys whose value is falsy
__remove_none_values_falsy(d) ==
    json_dumps([k \in {x \in DOMAIN d : Truthy(d[x])} |-> d[k]])

\* MinuteDockCall.__remove_none_values: the JSON text of the dict without
\* the keys whose value is None
__remove_none_values(d) ==
    json_dumps([k \in {x \in DOMAIN d : d[x] # None} |-> d[k]])

\* __api_url without the path variable
__api_url_novar(path, path_var, params) ==
    IF path # None
    THEN [raised |-> FALSE,
          url |-> [base |-> Lower(BASE_URL), path |-> <<Lower(path)>>,
                   query |-> [k \in DOMAIN params.dict |->
                                 Lower(params.dict[k])]]]
    ELSE [raised |-> TRUE,
          url |-> [base |-> "", path |-> <<>>, query |-> EmptyDict]]

\* __api_url without the check of path
__api_url_nocheck(path, path_var, params) ==
    [raised |-> FALSE,
     url |-> [base |-> Lower(BASE_URL),
              path |-> IF path_var # None
                       THEN <<Lower(path), Lower(path_var)>>
                       ELSE <<Lower(path)>>,
              query |-> [k \in DOMAIN params.dict |->
                            Lower(params.dict[k])]]]

\* MinuteDockCall.__api_url: BASE_URL with the query urlencode(params) when
\* params is given and the path path + "/" + path_var when path_var is
\* given, the whole lower-cased; ClientException when path is None.  The
\* path is a sequence of the pieces joined by "/".
__api_url(path, path_var, params) ==
    IF path # None
    THEN [raised |-> FALSE,
          url |-> [base |-> Lower(BASE_URL),
                   path |-> IF path_var # None
                            THEN <<Lower(path), Lower(path_var)>>
                            ELSE <<Lower(path)>>,
                   query |-> [k \in DOMAIN params.dict |->
                                 Lower(params.dict[k])]]]
    ELSE [raised |-> TRUE,
          url |-> [base |-> "", path |-> <<>>, query |-> EmptyDict]]

\* _make_request, lines 59-66: request_headers IS self.headers (no copy);
\* with a payload the Content-Type entry is written into it
request_headers(self_headers, payload) ==
    IF payload.given
    THEN [h \in DOMAIN self_headers \cup {"Content-Type"} |->
             IF h = "Content-Type" THEN "application/json"
             ELSE self_headers[h]]
    ELSE self_headers

\* _make_request, lines 60-64: the data of the request
request_payload(payload) ==
    IF payload.given
    THEN SomeDict(__remove_none_values(payload.dict))
    ELSE NoDict

\* what the transport does with the request: a response with a status and
\* a body, or a failure (requests.ConnectionError, requests.Timeout)
Failure == [kind |-> "failure", status |-> 0, body |-> JsonNull]
Response(s, b) == [kind |-> "response", status |-> s, body |-> b]

\* Response.raise_for_status raises HTTPError for the statuses 400..599
raises_HTTPError(status) == 400 <= status /\ status < 600

\* _make_request with the HTTPError swallowed
_make_request_swallow(t) ==
    IF t.kind = "failure"
    THEN [kind |-> "RequestException", status |-> 0, json |-> JsonNull]
    ELSE [kind |-> "json", status |-> t.status, json |-> t.body]

\* _make_request catching every exception of the transport
_make_request_catchall(t) ==
    IF t.kind = "failure" \/ raises_HTTPError(t.status)
    THEN [kind |-> "SystemExit", status |-> t.status, json |-> JsonNull]
    ELSE [kind |-> "json", status |-> t.status, json |-> t.body]

\* _make_request, lines 68-84: an exception of request() that is not an
\* HTTPError propagates; an HTTPError of raise_for_status becomes
\* SystemExit(e); otherwise md_response.json() is returned
_make_request(t) ==
    IF t.kind = "failure"
    THEN [kind |-> "RequestException", status |-> 0, json |-> JsonNull]
    ELSE IF raises_HTTPError(t.status)
    THEN [kind |-> "SystemExit", status |-> t.status, json |-> JsonNull]
    ELSE [kind |-> "json", status |-> t.status, json |-> t.body]

\* MinuteDockCall._handle_response
_handle_response(c, md_response) == _create_from_dict(c, md_response)

\* what _get, _post and _put hand to __api_url and _make_request
Dispatch(verb, c, path, path_var, params, payload) ==
    [verb |-> verb, cls |-> c, path |-> path, path_var |-> path_var,
     params |-> params, payload |-> payload]

\* MinuteDockCall._get: reads path, path_var and params from kwargs
_get(c, kwargs) ==
    Dispatch("GET", c, dict_get(kwargs, "path", None),
             dict_get(kwargs, "path_var", None),
             kwargs_dict(kwargs, "params"), NoDict)

\* MinuteDockCall._post: reads path, path_var and payload from kwargs
_post(c, kwargs) ==
    Dispatch("POST", c, dict_get(kwargs, "path", None),
             dict_get(kwargs, "path_var", None),
             NoDict, kwargs_dict(kwargs, "payload"))

\* MinuteDockCall._put: reads path, id and payload from kwargs
_put(c, kwargs) ==
    Dispatch("PUT", c, dict_get(kwargs, "path", None),
             dict_get(kwargs, "id", None),
             NoDict, kwargs_dict(kwargs, "payload"))

(***************************************************************************)
(* api.py: the arguments of the MinuteDock facade                          *)
(***************************************************************************)
\* the values a caller passes for an argument
ArgValues == {"None", "False", "Ab"}

\* the identifier a caller passes for a required id
Ids == {"42"}

\* the calls of a method whose signature has the defaults d: at most MaxArgs
\* arguments are passed explicitly, the others take their defaults
Arguments(d) ==
    UNION { { [p \in DOMAIN d |-> IF p \in S THEN g[p] ELSE d[p]] :
              g \in [S -> ArgValues] } :
            S \in {T \in SUBSET DOMAIN d : Cardinality(T) <= MaxArgs} }

\* the same, with the required argument id in front
ArgumentsWithId(d) ==
    UNION { { [p \in DOMAIN d \cup {"id"} |-> IF p = "id" THEN i ELSE a[p]] :
              a \in Arguments(d) } : i \in Ids }

NoArguments == {EmptyDict}

filter_defaults ==
    [users |-> "all", contacts |-> "all", projects |-> "all",
     tasks |-> "all", billable_only |-> "False", unbillable_only |-> "False",
     invoiced_only |-> "False", uninvoiced_only |-> "False"]

budget_defaults ==
    [budget_type |-> None, budget_frequency |-> None, budget_target |-> None,
     budget_progress |-> None, default_rate_dollars |-> None,
     pinned |-> None, name |-> None, short_code |-> None]

entry_defaults ==
    [account_id |-> None, description |-> None, duration |-> None,
     contact_id |-> None, project_id |-> None, task_ids |-> None,
     invoice_id |-> None, logged_at |-> None]

\* the signatures: each parameter's default
get_report_defaults ==
    filter_defaults @@
    [date_from |-> None, date_to |-> None, task_detail |-> "''"]
get_all_users_defaults == [active |-> "False"]
get_all_contacts_defaults == [pinned |-> "False", active |-> "True"]
create_contact_defaults == budget_defaults @@ [id |-> None, active |-> None]
update_contact_defaults == budget_defaults @@ [active |-> None]
get_all_projects_defaults == [pinned |-> "False", active |-> "True"]
create_project_defaults ==
    budget_defaults @@
    [id |-> None, contact_id |-> None, active |-> "True",
     hidden |-> "False", description |-> None]
update_project_defaults ==
    budget_defaults @@
    [contact_id |-> None, active |-> None, hidden |-> None,
     description |-> None]
get_all_tasks_defaults == [pinned |-> None, active |-> "True"]
create_task_defaults ==
    budget_defaults @@
    [id |-> None, contact_id |-> None, active |-> None, hidden |-> None,
     description |-> None]
update_task_defaults ==
    budget_defaults @@
    [contact_id |-> None, active |-> None, hidden |-> None,
     description |-> None]
search_time_entries_defaults ==
    filter_defaults @@
    [date_from |-> None, date_to |-> None, limit |-> "50", offset |-> "0",
     since |-> None]
create_time_entry_defaults == entry_defaults @@ [id |-> None]
update_time_entry_defaults == entry_defaults

\* the bounded sets of calls of each method
get_report_calls == Arguments(get_report_defaults)
get_all_users_calls == Arguments(get_all_users_defaults)
get_all_contacts_calls == Arguments(get_all_contacts_defaults)
create_contact_calls == Arguments(create_contact_defaults)
update_contact_calls == ArgumentsWithId(update_contact_defaults)
get_all_projects_calls == Arguments(get_all_projects_defaults)
create_project_calls == Arguments(create_project_defaults)
update_project_calls == ArgumentsWithId(update_project_defaults)
get_all_tasks_calls == Arguments(get_all_tasks_defaults)
create_task_calls == Arguments(create_task_defaults)
update_task_calls == ArgumentsWithId(update_task_defaults)
search_time_entries_calls == Arguments(search_time_entries_defaults)
create_time_entry_calls == Arguments(create_time_entry_defaults)
update_time_entry_calls == ArgumentsWithId(update_time_entry_defaults)
get_by_id_calls == ArgumentsWithId(EmptyDict)

\* the dicts the facade builds from its arguments
report_params(a) ==
    [users |-> a.users, contacts |-> a.contacts, projects |-> a.projects,
     tasks |-> a.tasks, billable_only |-> a.billable_only,
     unbillable_only |-> a.unbillable_only,
     invoiced_only |-> a.invoiced_only,
     uninvoiced_only |-> a.uninvoiced_only,
     from |-> a.date_from, to |-> a.date_to, task_detail |-> a.task_detail]

search_params(a) ==
    [from |-> a.date_from, to |-> a.date_to, limit |-> a.limit,
     offset |-> a.offset, users |-> a.users, contacts |-> a.contacts,
     projects |-> a.projects, tasks |-> a.tasks,
     billable_only |-> a.billable_only,
     unbillable_only |-> a.unbillable_only,
     invoiced_only |-> a.invoiced_only,
     uninvoiced_only |-> a.uninvoiced_only, since |-> a.since]

\* create_* and update_* pass every argument under its own name
same_names(a) == [p \in DOMAIN a |-> a[p]]

(***************************************************************************)
(* Record-layer inputs                                                     *)
(***************************************************************************)
\* a key no class declares
UnknownKey == "unknown"

\* the identifier of a mapping that carries one besides its other keys
IdValues == {"7"}

\* the mappings over at most MaxKeys keys, declared or not
KeyMappings(c) ==
    UNION { [S -> Values] :
            S \in {T \in SUBSET (FieldNames(c) \cup {UnknownKey}) :
                      Cardinality(T) <= MaxKeys} }

\* these mappings, and for a class with an id each of them with the key id
\* set to an identifier
Mappings(c) ==
    KeyMappings(c)
    \cup { [k \in DOMAIN m \cup {"id"} |->
              IF k = "id" THEN i ELSE m[k]] :
           m \in {x \in KeyMappings(c) : "id" \in FieldNames(c)},
           i \in IdValues }

\* the attribute names read on an entity: declared by some classes and not
\* by others, or by none
AttributeNames == {"id", "description", "name", "total_hours", UnknownKey}

\* the key the elements of a JSON array carry
ElementKey(c) == IF c = "Report" THEN "description" ELSE "id"

\* the elements of a decoded JSON array
Elements(c) ==
    {EmptyDict} \cup { [k \in {ElementKey(c)} |-> v] : v \in Values }

\* the decoded JSON a response may hold for class c
Inputs(c) ==
    {JsonNull}
    \cup { JsonMap(m) : m \in Mappings(c) }
    \cup UNION { { JsonList(l) : l \in [1..n -> Elements(c)] } : n \in 0..MaxLen }

NoObj == [kind |-> "none"]

(***************************************************************************)
(* Record-layer scenario: decode, then serialise and decode again, or      *)
(* decode a neighbouring mapping and compare                               *)
(***************************************************************************)
NoCall ==
    [method |-> "none", args |-> EmptyDict, verb |-> "", cls |-> "",
     path |-> "", path_var |-> "", payload |-> NoDict,
     headers_before |-> EmptyDict]
NoRequest ==
    [sent |-> FALSE, method |-> "",
     url |-> [base |-> "", path |-> <<>>, query |-> EmptyDict],
     headers |-> EmptyDict, data |-> NoDict]
NoResponse == [kind |-> "none", status |-> 0, body |-> JsonNull]
NoResult ==
    [kind |-> "none", status |-> 0, value |-> NoObj, decoded |-> FALSE,
     factory_calls |-> 0]

\* the call layer at rest, while the record-layer scenario runs
CallIdle ==
    /\ pc = "off"
    /\ api_key = None
    /\ account_id = None
    /\ headers = EmptyDict
    /\ call = NoCall
    /\ request = NoRequest
    /\ nrequests = 0
    /\ response = NoResponse
    /\ result = NoResult
    /\ facade_only = TRUE

ModelInit ==
    /\ mpc = "input"
    /\ cls \in Classes
    /\ data \in Inputs(cls)
    /\ obj = NoObj
    /\ other = NoObj
    /\ eq_result = FALSE
    /\ dumped = EmptyDict
    /\ reloaded = NoObj
    /\ hash_self = NoOutcome
    /\ hash_other = NoOutcome
    /\ attr_name = ""
    /\ attr_value = NoOutcome
    /\ CallIdle

\* obj = cls._create_from_dict(data)
Decode ==
    /\ mpc = "input"
    /\ obj' = _create_from_dict(cls, data)
    /\ mpc' = "created"
    /\ UNCHANGED <<cls, data, other, eq_result, dumped, reloaded, hvars,
                   cvars>>

\* other = cls._create_from_dict(data with one key's value replaced);
\* eq_result = (obj == other)
Compare ==
    /\ mpc = "created"
    /\ obj.kind = "obj"
    /\ \E k \in DOMAIN data.map, v \in Values :
         /\ other' = _create_from_dict(cls, JsonMap([data.map EXCEPT ![k] = v]))
         /\ eq_result' = __eq__(obj.obj, other'.obj)
    /\ mpc' = "compared"
    /\ UNCHANGED <<cls, data, obj, dumped, reloaded, hvars, cvars>>

\* dumped = obj.to_dict()
Dump ==
    /\ mpc = "created"
    /\ obj.kind = "obj"
    /\ dumped' = to_dict(obj.obj)
    /\ mpc' = "dumped"
    /\ UNCHANGED <<cls, data, obj, other, eq_result, reloaded, hvars,
                   cvars>>

\* reloaded = cls._create_from_dict(dumped)
Reload ==
    /\ mpc = "dumped"
    /\ reloaded' = _create_from_dict(cls, JsonMap(dumped))
    /\ mpc' = "reloaded"
    /\ UNCHANGED <<cls, data, obj, other, eq_result, dumped, hvars, cvars>>

\* hash_self = hash(obj); hash_other = hash(other)
Hash ==
    /\ mpc = "compared"
    /\ hash_self' = __hash__(obj.obj)
    /\ hash_other' = __hash__(other.obj)
    /\ mpc' = "hashed"
    /\ UNCHANGED <<cls, data, obj, other, eq_result, dumped, reloaded,
                   attr_name, attr_value, cvars>>

\* attr_value = getattr(obj, attr_name)
GetAttr ==
    /\ mpc = "created"
    /\ obj.kind = "obj"
    /\ \E name \in AttributeNames :
         /\ attr_name' = name
         /\ attr_value' = getattr(obj.obj, name)
    /\ mpc' = "read"
    /\ UNCHANGED <<cls, data, obj, other, eq_result, dumped, reloaded,
                   hash_self, hash_other, cvars>>

ModelNext == Decode \/ Compare \/ Dump \/ Reload \/ Hash \/ GetAttr

ModelSpec == ModelInit /\ [][ModelNext]_vars

(***************************************************************************)
(* Call layer: a client, and the calls made on it one after the other      *)
(***************************************************************************)
ApiKeys == {"key1", "key2"}
AccountIds == {None, "acct1"}

\* the JSON bodies a 200 response carries: an object, an array
Bodies(c) ==
    {JsonMap([k \in {ElementKey(c)} |-> "7"]),
     JsonList(<<[k \in {ElementKey(c)} |-> "7"], EmptyDict>>)}

\* what the transport may do with a request: answer 200 with a body, answer
\* 304, 404 or 500 with the body null, or fail
Transport(c) ==
    { Response(200, b) : b \in Bodies(c) }
    \cup { Response(st, JsonNull) : st \in {304, 404, 500} }
    \cup {Failure}

\* the record layer at rest, while the call layer runs
ModelIdle ==
    /\ mpc = "off"
    /\ cls = ""
    /\ data = JsonNull
    /\ obj = NoObj
    /\ other = NoObj
    /\ eq_result = FALSE
    /\ dumped = EmptyDict
    /\ reloaded = NoObj
    /\ hash_self = NoOutcome
    /\ hash_other = NoOutcome
    /\ attr_name = ""
    /\ attr_value = NoOutcome

\* client = MinuteDock(api_key, account_id)
Init ==
    /\ pc = "idle"
    /\ api_key \in ApiKeys
    /\ account_id \in AccountIds
    /\ headers = headers_init(api_key, account_id)
    /\ call = NoCall
    /\ request = NoRequest
    /\ nrequests = 0
    /\ response = NoResponse
    /\ result = NoResult
    /\ facade_only = TRUE
    /\ ModelIdle

\* A call up to the point where requests.request is entered: _get, _post
\* or _put has read its kwargs (d), __api_url builds the URL or raises
\* ClientException, _make_request prepares headers and data and sends.
Start(method, a, d) ==
    LET u == __api_url(d.path, d.path_var, d.params) IN
    /\ pc = "idle"
    /\ call' = [method |-> method, args |-> a, verb |-> d.verb, cls |-> d.cls,
                path |-> d.path, path_var |-> d.path_var,
                payload |-> d.payload, headers_before |-> headers]
    /\ response' = NoResponse
    /\ IF u.raised
       THEN /\ pc' = "raised"
            /\ result' = [NoResult EXCEPT !.kind = "ClientException"]
            /\ request' = NoRequest
            /\ nrequests' = 0
            /\ headers' = headers
       ELSE /\ pc' = "sent"
            /\ result' = NoResult
            /\ headers' = request_headers(headers, d.payload)
            /\ request' = [sent |-> TRUE, method |-> d.verb, url |-> u.url,
                           headers |-> headers',
                           data |-> request_payload(d.payload)]
            /\ nrequests' = 1
    /\ UNCHANGED <<api_key, account_id, mvars>>

\* Respond with the request sent once more after a failure of the transport
Respond_retry ==
    /\ pc = "sent"
    /\ \E t \in Transport(call.cls) :
         LET r == _make_request(t) IN
         /\ response' = t
         /\ IF r.kind = "json"
            THEN /\ pc' = "returned"
                 /\ nrequests' = nrequests
                 /\ result' = [kind |-> "returned", status |-> r.status,
                               value |-> _handle_response(call.cls, r.json),
                               decoded |-> TRUE, factory_calls |-> 1]
            ELSE IF r.kind = "SystemExit"
            THEN /\ pc' = "exited"
                 /\ nrequests' = nrequests
                 /\ result' = [NoResult EXCEPT !.kind = "SystemExit",
                                               !.status = r.status]
            ELSE IF nrequests < 2
            THEN /\ pc' = "sent"
                 /\ nrequests' = nrequests + 1
                 /\ result' = NoResult
            ELSE /\ pc' = "raised"
                 /\ nrequests' = nrequests
                 /\ result' = [NoResult EXCEPT !.kind = r.kind]
    /\ UNCHANGED <<api_key, account_id, headers, call, request, facade_only,
                   mvars>>

\* The transport answers or fails; _make_request raises or returns the
\* decoded body, which _handle_response turns into entities.  The request
\* is not sent again.
Respond ==
    /\ pc = "sent"
    /\ \E t \in Transport(call.cls) :
         LET r == _make_request(t) IN
         /\ response' = t
         /\ IF r.kind = "json"
            THEN /\ pc' = "returned"
                 /\ result' = [kind |-> "returned", status |-> r.status,
                               value |-> _handle_response(call.cls, r.json),
                               decoded |-> TRUE, factory_calls |-> 1]
            ELSE IF r.kind = "SystemExit"
            THEN /\ pc' = "exited"
                 /\ result' = [NoResult EXCEPT !.kind = "SystemExit",
                                               !.status = r.status]
            ELSE /\ pc' = "raised"
                 /\ result' = [NoResult EXCEPT !.kind = r.kind]
    /\ UNCHANGED <<api_key, account_id, headers, call, request, nrequests,
                   facade_only, mvars>>

\* the caller has the result (or has caught the exception) and goes on
Return ==
    /\ pc \in {"returned", "raised"}
    /\ pc' = "idle"
    /\ call' = NoCall
    /\ request' = NoRequest
    /\ nrequests' = 0
    /\ response' = NoResponse
    /\ result' = NoResult
    /\ UNCHANGED <<api_key, account_id, headers, facade_only, mvars>>

(***************************************************************************)
(* api.py: the MinuteDock facade, one action per method.  Each passes to   *)
(* _get, _post or _put the keyword arguments its source line passes.       *)
(***************************************************************************)
get_report ==
    /\ \E a \in get_report_calls :
          Start("get_report", a,
                 _post("Report", [path |-> API_PATH.reports,
                                  params |-> report_params(a)]))
    /\ UNCHANGED facade_only

get_all_users ==
    /\ \E a \in get_all_users_calls :
          Start("get_all_users", a,
                 _get("User", [path |-> API_PATH.users,
                               params |-> [active |-> a.active]]))
    /\ UNCHANGED facade_only

get_current_user ==
    /\ \E a \in NoArguments :
          Start("get_current_user", a,
                 _get("User", [path |-> API_PATH.current_user]))
    /\ UNCHANGED facade_only

get_accounts ==
    /\ \E a \in NoArguments :
          Start("get_accounts", a, _get("Account", [path |-> API_PATH.accounts]))
    /\ UNCHANGED facade_only

get_current_account ==
    /\ \E a \in NoArguments :
          Start("get_current_account", a,
                 _get("Account", [path |-> API_PATH.current_account]))
    /\ UNCHANGED facade_only

get_contact ==
    /\ \E a \in get_by_id_calls :
          Start("get_contact", a,
                 _get("Contact", [path_var |-> a.id, path |-> API_PATH.contacts]))
    /\ UNCHANGED facade_only

get_all_contacts ==
    /\ \E a \in get_all_contacts_calls :
          Start("get_all_contacts", a,
                 _get("Contact", [path |-> API_PATH.contacts,
                                  params |-> [pinned |-> a.pinned,
                                              active |-> a.active]]))
    /\ UNCHANGED facade_only

create_contact ==
    /\ \E a \in create_contact_calls :
          Start("create_contact", a,
                 _post("Contact", [path |-> API_PATH.contacts,
                                   params |-> same_names(a)]))
    /\ UNCHANGED facade_only

update_contact ==
    /\ \E a \in update_contact_calls :
          Start("update_contact", a,
                 _put("Contact", [path_var |-> a.id, path |-> API_PATH.contacts,
                                  params |-> same_names(a)]))
    /\ UNCHANGED facade_only

get_project ==
    /\ \E a \in get_by_id_calls :
          Start("get_project", a,
                 _get("Project", [path_var |-> a.id, path |-> API_PATH.projects]))
    /\ UNCHANGED facade_only

get_all_projects ==
    /\ \E a \in get_all_projects_calls :
          Start("get_all_projects", a,
                 _get("Project", [path |-> API_PATH.projects,
                                  params |-> [pinned |-> a.pinned,
                                              active |-> a.active]]))
    /\ UNCHANGED facade_only

create_project ==
    /\ \E a \in create_project_calls :
          Start("create_project", a,
                 _post("Project", [path |-> API_PATH.projects,
                                   params |-> same_names(a)]))
    /\ UNCHANGED facade_only

update_project ==
    /\ \E a \in update_project_calls :
          Start("update_project", a,
                 _put("Project", [path_var |-> a.id, path |-> API_PATH.projects,
                                  params |-> same_names(a)]))
    /\ UNCHANGED facade_only

get_task ==
    /\ \E a \in get_by_id_calls :
          Start("get_task", a,
                 _get("Task", [id |-> a.id, path |-> API_PATH.tasks]))
    /\ UNCHANGED facade_only

get_all_tasks ==
    /\ \E a \in get_all_tasks_calls :
          Start("get_all_tasks", a,
                 _get("Task", [path |-> API_PATH.tasks,
                               params |-> [pinned |-> a.pinned,
                                           active |-> a.active]]))
    /\ UNCHANGED facade_only

create_task ==
    /\ \E a \in create_task_calls :
          Start("create_task", a,
                 _post("Task", [path |-> API_PATH.tasks,
                                params |-> same_names(a)]))
    /\ UNCHANGED facade_only

update_task ==
    /\ \E a \in update_task_calls :
          Start("update_task", a,
                 _put("Task", [path_var |-> a.id, path |-> API_PATH.tasks,
                               params |-> same_names(a)]))
    /\ UNCHANGED facade_only

start_timer ==
    /\ \E a \in NoArguments :
          Start("start_timer", a,
                 _post("TimeEntry", [path_var |-> "start",
                                     path |-> API_PATH.current_entry]))
    /\ UNCHANGED facade_only

pause_timer ==
    /\ \E a \in NoArguments :
          Start("pause_timer", a,
                 _post("TimeEntry", [path_var |-> "pause",
                                     path |-> API_PATH.current_entry]))
    /\ UNCHANGED facade_only

log_timer ==
    /\ \E a \in NoArguments :
          Start("log_timer", a,
                 _post("TimeEntry", [path_var |-> "log",
                                     path |-> API_PATH.current_entry]))
    /\ UNCHANGED facade_only

search_time_entries ==
    /\ \E a \in search_time_entries_calls :
          Start("search_time_entries", a,
                 _get("TimeEntry", [path |-> API_PATH.entries,
                                    params |-> search_params(a)]))
    /\ UNCHANGED facade_only

create_time_entry ==
    /\ \E a \in create_time_entry_calls :
          Start("create_time_entry", a,
                 _post("TimeEntry", [path |-> API_PATH.entries,
                                     payload |-> same_names(a)]))
    /\ UNCHANGED facade_only

update_time_entry ==
    /\ \E a \in update_time_entry_calls :
          Start("update_time_entry", a,
                 _put("TimeEntry", [path_var |-> a.id, path |-> API_PATH.entries,
                                    payload |-> same_names(a)]))
    /\ UNCHANGED facade_only

(***************************************************************************)
(* MinuteDockCall._get, _post and _put called directly, the keyword        *)
(* arguments the caller's own                                              *)
(***************************************************************************)
\* the dicts a direct caller passes as params or payload
DirectDicts ==
    {[a |-> "7", b |-> None], [a |-> "False", b |-> "0"],
     [a |-> "''", b |-> "Ab"]}

\* the keyword arguments of a direct call: path and the path variable (under
\* the name var) given or not, a dict (under the name dict) given or not
DirectKwargs(var, dict) ==
    { (IF path = None THEN EmptyDict ELSE [k \in {"path"} |-> path])
      @@ (IF pv = None THEN EmptyDict ELSE [k \in {var} |-> pv])
      @@ (IF d.given THEN [k \in {dict} |-> d.dict] ELSE EmptyDict) :
      path \in {None, API_PATH.contacts, "/API/V1/Contacts"}, pv \in {None, "42", "Ab"},
      d \in {NoDict} \cup { SomeDict(x) : x \in DirectDicts } }

direct_get ==
    /\ \E kw \in DirectKwargs("path_var", "params") :
         Start("_get", kw, _get("Contact", kw))
    /\ facade_only' = FALSE

direct_post ==
    /\ \E kw \in DirectKwargs("path_var", "payload") :
         Start("_post", kw, _post("Contact", kw))
    /\ facade_only' = FALSE

direct_put ==
    /\ \E kw \in DirectKwargs("id", "payload") :
         Start("_put", kw, _put("Contact", kw))
    /\ facade_only' = FALSE

Next ==
    \/ get_report \/ get_all_users \/ get_current_user \/ get_accounts
    \/ get_current_account \/ get_contact \/ get_all_contacts
    \/ create_contact \/ update_contact \/ get_project \/ get_all_projects
    \/ create_project \/ update_project \/ get_task \/ get_all_tasks
    \/ create_task \/ update_task \/ start_timer \/ pause_timer \/ log_timer
    \/ search_time_entries \/ create_time_entry \/ update_time_entry
    \/ direct_get \/ direct_post \/ direct_put
    \/ Respond \/ Return

Spec == Init /\ [][Next]_vars

(***************************************************************************)
(* Properties                                                              *)
(***************************************************************************)

\* C1: in any sequence of facade calls, a request carries the header
\* Content-Type if and only if that request itself has a body, whatever
\* calls were made earlier on the same client.
C1_ContentTypeIffBody ==
    (facade_only /\ request.sent) =>
        (("Content-Type" \in DOMAIN request.headers) <=> request.data.given)

\* C2: two entities compare equal if and only if their full field-value
\* mappings are equal (a field holding None in one and False, 0 or '' in
\* the other makes them unequal).
C2_EqualIffFieldsEqual ==
    (mpc = "compared") =>
        (eq_result <=> DictEq(obj.obj.attrs, other.obj.attrs))

\* the name an argument of the facade goes by in the params or payload dict
WireName(p) ==
    CASE p = "date_from" -> "from"
      [] p = "date_to" -> "to"
      [] OTHER -> p

\* the facade methods that assemble a parameter set from their arguments
ParamMethods ==
    {"get_report", "get_all_users", "get_all_contacts", "get_all_projects",
     "get_all_tasks", "search_time_entries", "create_contact",
     "create_project", "create_task", "create_time_entry", "update_contact",
     "update_project", "update_task", "update_time_entry"}

\* the signature defaults of each of these methods
SignatureDefaults(method) ==
    CASE method = "get_report" -> get_report_defaults
      [] method = "get_all_users" -> get_all_users_defaults
      [] method = "get_all_contacts" -> get_all_contacts_defaults
      [] method = "get_all_projects" -> get_all_projects_defaults
      [] method = "get_all_tasks" -> get_all_tasks_defaults
      [] method = "search_time_entries" -> search_time_entries_defaults
      [] method = "create_contact" -> create_contact_defaults
      [] method = "create_project" -> create_project_defaults
      [] method = "create_task" -> create_task_defaults
      [] method = "create_time_entry" -> create_time_entry_defaults
      [] method = "update_contact" -> update_contact_defaults
      [] method = "update_project" -> update_project_defaults
      [] method = "update_task" -> update_task_defaults
      [] method = "update_time_entry" -> update_time_entry_defaults

\* an argument the caller has certainly supplied: a required one, or one
\* whose value is not the default of the signature
Supplied(method, a, p) ==
    \/ p \notin DOMAIN SignatureDefaults(method)
    \/ a[p] # SignatureDefaults(method)[p]

\* C3: every non-null argument the caller supplies to a create_*, update_*,
\* get_report, get_all_* or search_time_entries call appears in the request
\* that is sent: in the (case-normalised) query string of a GET, in the JSON
\* body of a POST or PUT.
C3_ArgumentsDelivered ==
    (pc = "sent" /\ call.method \in ParamMethods) =>
        \A p \in DOMAIN call.args :
            (Supplied(call.method, call.args, p) /\ call.args[p] # None) =>
                IF call.verb = "GET"
                THEN /\ WireName(p) \in DOMAIN request.url.query
                     /\ request.url.query[WireName(p)] = Lower(call.args[p])
                ELSE /\ request.data.given
                     /\ WireName(p) \in DOMAIN request.data.dict
                     /\ request.data.dict[WireName(p)]
                            = json_value(call.args[p])

\* the base endpoint path of the entity a by-id method addresses
EntityPath(method) ==
    CASE method \in {"get_contact", "update_contact"} -> "/api/v1/contacts"
      [] method \in {"get_project", "update_project"} -> "/api/v1/projects"
      [] method \in {"get_task", "update_task"} -> "/api/v1/tasks"
      [] method = "update_time_entry" -> "/api/v1/entries"

ByIdMethods ==
    {"get_contact", "get_project", "get_task", "update_contact",
     "update_project", "update_task", "update_time_entry"}

\* C4: a facade operation that addresses one resource by identifier, called
\* with id i, sends its request to the entity's base path followed by "/"
\* and i.
C4_IdInPath ==
    (pc = "sent" /\ call.method \in ByIdMethods) =>
        request.url.path = <<EntityPath(call.method), call.args.id>>

C6_AnyErrorExits ==
    (response.kind = "failure"
        \/ (response.kind = "response" /\ response.status >= 400)) =>
        (pc = "exited" /\ result.kind = "SystemExit")

\* C6 amended: an error status ends the call in process termination and
\* nothing else does; a connection failure or timeout reaches the caller as
\* the transport library's exception, with no result and nothing decoded.
C6_OnlyHttpErrorExits ==
    /\ (pc = "exited") <=>
           (response.kind = "response" /\ response.status >= 400)
    /\ (response.kind = "failure") =>
           /\ pc = "raised"
           /\ result.kind = "RequestException"
           /\ result.value = NoObj
           /\ ~result.decoded

\* C6 witness: a call has ended on a failure of the transport
C6_Witness == response.kind = "failure" /\ pc = "raised"

\* the attributes the claims expect of an entity of class c built from the
\* mapping m
Expected(c, m) ==
    [a \in FieldNames(c) |-> IF a \in DOMAIN m THEN m[a] ELSE None]

\* C7: for every entity type and every decoded mapping, the entity has, for
\* each declared field, the mapping's value when the key is present and the
\* declared default (None) when it is missing.
C7_ValueOrDefault ==
    /\ (obj.kind = "obj") => obj.obj.attrs = Expected(cls, data.map)
    /\ (obj.kind = "list") =>
           \A i \in 1..Len(obj.list) :
               obj.list[i].attrs = Expected(cls, data.list[i])

\* C7 witness: an entity decoded from a mapping that gives a declared field
\* a falsy value and leaves other declared fields out
C7_Witness ==
    /\ mpc = "created"
    /\ obj.kind = "obj"
    /\ \E a \in FieldNames(cls) \cap DOMAIN data.map : data.map[a] = "0"
    /\ FieldNames(cls) \ DOMAIN data.map # {}

\* C8: the record factory preserves the shape of its input: n mappings give
\* n entities of the class, the k-th built from the k-th mapping; one
\* mapping gives one entity; null gives null.
C8_ShapePreserved ==
    (mpc \in {"created", "compared", "dumped", "reloaded", "hashed",
              "read"}) =>
        CASE data.kind = "null" -> obj.kind = "null"
          [] data.kind = "map" ->
               /\ obj.kind = "obj"
               /\ obj.obj.cls = cls
               /\ obj.obj.attrs = __init__(cls, data.map)
          [] data.kind = "list" ->
               /\ obj.kind = "list"
               /\ Len(obj.list) = Len(data.list)
               /\ \A k \in 1..Len(data.list) :
                    /\ obj.list[k].cls = cls
                    /\ obj.list[k].attrs = __init__(cls, data.list[k])

\* C8 witness: the factory has decoded an array of two different mappings
C8_Witness ==
    /\ mpc = "created"
    /\ data.kind = "list"
    /\ Len(data.list) = 2
    /\ data.list[1] # data.list[2]
    /\ obj.kind = "list"

\* C9: to_dict has a key for a declared field if and only if the field's
\* value is truthy; fields holding None, False, 0, '' or an empty sequence
\* are left out.
C9_KeyIffTruthy ==
    (mpc = "dumped") =>
        \A a \in FieldNames(cls) :
            (a \in DOMAIN dumped) <=> Truthy(obj.obj.attrs[a])

\* C10: round trip: decoding to_dict(e) with the factory of e's class gives
\* an entity that compares equal to e and whose to_dict equals to_dict(e).
C10_RoundTrip ==
    (mpc = "reloaded") =>
        /\ reloaded.kind = "obj"
        /\ reloaded.obj.cls = obj.obj.cls
        /\ __eq__(reloaded.obj, obj.obj)
        /\ DictEq(to_dict(reloaded.obj), dumped)

\* C10 witness: an entity with a field that survives serialisation has made
\* the round trip
C10_Witness == mpc = "reloaded" /\ DOMAIN dumped # {}

\* C11: the body encoder maps a payload to the JSON object with exactly the
\* payload's keys whose value is not None, each with (the JSON text of) its
\* original value; keys holding False, 0 or '' are kept.
C11_NoneKeysDropped ==
    (request.sent /\ call.payload.given) =>
        /\ request.data.given
        /\ DOMAIN request.data.dict
               = {k \in DOMAIN call.payload.dict : call.payload.dict[k] # None}
        /\ \A k \in DOMAIN request.data.dict :
               request.data.dict[k] = json_value(call.payload.dict[k])

\* C11 witness: the payload {a: 7, b: None} has been sent as {a: 7}
C11_Witness ==
    /\ request.sent
    /\ call.payload = SomeDict([a |-> "7", b |-> None])
    /\ request.data = SomeDict([k \in {"a"} |-> "7"])

\* C12: the URL built from a path p and a path variable v is the base
\* followed by the lower-cased p + "/" + v; with no path variable the path
\* of the URL is the lower-cased p alone.
C12_UrlFromPathAndVariable ==
    request.sent =>
        /\ request.url.base = Lower(BASE_URL)
        /\ request.url.path =
               IF call.path_var # None
               THEN <<Lower(call.path), Lower(call.path_var)>>
               ELSE <<Lower(call.path)>>

\* C12 witness: a request for the path /API/V1/Contacts and the variable 42
\* has gone to /api/v1/contacts/42
C12_Witness ==
    /\ request.sent
    /\ call.path = "/API/V1/Contacts"
    /\ call.path_var = "42"
    /\ request.url.path = <<"/api/v1/contacts", "42">>

\* C13: a GET, POST or PUT dispatch whose path is None raises
\* ClientException to the caller before any request is issued: nothing is
\* sent, nothing is answered or decoded, and the client's headers are as the
\* call found them.
C13_NullPathRaises ==
    (call.method # "none" /\ call.path = None) =>
        /\ pc = "raised"
        /\ result.kind = "ClientException"
        /\ ~request.sent
        /\ nrequests = 0
        /\ response = NoResponse
        /\ ~result.decoded
        /\ headers = call.headers_before

\* C13 witness: a PUT with a payload and no path has raised
C13_Witness ==
    /\ pc = "raised"
    /\ call.verb = "PUT"
    /\ call.path = None
    /\ call.payload.given
    /\ result.kind = "ClientException"

\* C14: every request, in any sequence of calls, carries X-API-Key with the
\* key the client was constructed with, and carries X-Account-ID if and only
\* if an account id was given, then with that value.
C14_CredentialHeaders ==
    request.sent =>
        /\ "X-API-Key" \in DOMAIN request.headers
        /\ request.headers["X-API-Key"] = api_key
        /\ ("X-Account-ID" \in DOMAIN request.headers) <=> (account_id # None)
        /\ (account_id # None) =>
               request.headers["X-Account-ID"] = account_id

\* C14 witness: a client with an account id sends a request after an earlier
\* call has written Content-Type into its headers
C14_Witness ==
    /\ request.sent
    /\ account_id = "acct1"
    /\ ~request.data.given
    /\ "Content-Type" \in DOMAIN request.headers

\* C15: an operation that has built its URL issues exactly one request,
\* whether it is still waiting, has returned, has ended the process or has
\* raised the transport's exception: no retry, no second request.
C15_ExactlyOneRequest ==
    (pc \in {"sent", "returned", "exited"}
        \/ (pc = "raised" /\ result.kind = "RequestException")) =>
        (request.sent /\ nrequests = 1)

\* C15 witness: a facade call has ended on a failure of the transport
C15_Witness ==
    /\ pc = "raised"
    /\ response.kind = "failure"
    /\ call.method = "get_contact"
    /\ nrequests = 1

\* C16: for an entity whose class declares an id, hashing ends as hashing
\* its id alone does: two such entities with the same id have the same hash
\* whatever their other fields hold.
C16_HashIsHashOfId ==
    (mpc = "hashed" /\ "id" \in FieldNames(cls)) =>
        /\ hash_self = PyHash(obj.obj.attrs["id"])
        /\ hash_other = PyHash(other.obj.attrs["id"])
        /\ (obj.obj.attrs["id"] = other.obj.attrs["id"]) =>
               hash_self = hash_other

\* C16 witness: two entities with the same non-null id and different other
\* fields have been hashed, to the same value
C16_Witness ==
    /\ mpc = "hashed"
    /\ "id" \in FieldNames(cls)
    /\ obj.obj.attrs["id"] = "7"
    /\ other.obj.attrs["id"] = "7"
    /\ obj.obj.attrs # other.obj.attrs
    /\ hash_self = Returned("7")
    /\ hash_other = Returned("7")

\* C17: reading an attribute a decoded entity does not have raises
\* ClientException, never AttributeError, for every entity class and every
\* undeclared attribute name.
C17_MissingAttributeRaises ==
    (mpc = "read" /\ attr_name \notin FieldNames(cls)) =>
        attr_value = Raised("ClientException")

\* C17 witness: a key of the decoded mapping that the class does not declare
\* has been read as an attribute
C17_Witness ==
    /\ mpc = "read"
    /\ attr_name = UnknownKey
    /\ UnknownKey \in DOMAIN data.map
    /\ attr_value = Raised("ClientException")

\* C18: equality and hashing are consistent: whenever two entities of a
\* class with an id compare equal, hashing both gives equal hashes (also
\* when one id is None and the other a falsy id such as 0).
C18_EqualImpliesSameHash ==
    (mpc = "hashed" /\ "id" \in FieldNames(cls) /\ eq_result) =>
        hash_self = hash_other

\* C19: hashing a Report, which has no id, takes the fallback branch and
\* returns a hash value instead of raising.
C19_ReportHashReturns ==
    (mpc = "hashed" /\ cls = "Report") =>
        (hash_self.kind = "returned" /\ hash_other.kind = "returned")

====
